---- MODULE Spec2Model ----
(***************************************************************************)
(* A model of LuxBase's concurrency core:                                  *)
(*   include/Base/mutex.h  MutexLock, MutexLockGuard                        *)
(*   src/thread.cc         CurrentThread, detail::ThreadData, Thread        *)
(* Builds with assertions enabled (no NDEBUG) are modelled: a failed        *)
(* assert() or abort() ends the process, after which no thread steps.       *)
(***************************************************************************)
EXTENDS Integers, Sequences, FiniteSets, TLC

VARIABLES
    mutex_,       \* pthread_mutex_t: tid of the thread owning the native mutex, 0 = free
    holder_,      \* MutexLock::holder_
    mutexLife,    \* "alive" | "destroying" (assert passed) | "destroyed"
    mpc,          \* position of each plain thread using the mutex
    pairs,        \* lock()/unlock() pairs each plain thread has completed
    aborted,      \* "no", or what ended the process
    numCreated_,  \* Thread::numCreated_
    hstate,       \* per Thread handle: "none" | "ctor" | "alive" | "destroyed"
    ctorArg,      \* the name argument given to the constructor
    ctorNum,      \* setDefaultName's local num
    name_,        \* Thread::name_
    started_,     \* Thread::started_
    joined_,      \* Thread::joined_
    pthreadId_,   \* Thread::pthreadId_
    tid_,         \* Thread::tid_
    latch_,       \* count of Thread::latch_
    spawned,      \* native threads created for the handle (successful pthread_create)
    nativeJoins,  \* pthread_join calls made for the handle
    detached,     \* pthread_detach was called for the handle's native thread
    startRet,     \* start() has returned to its caller
    joinRet,      \* what join() returned, NotReturned before that
    cpc,          \* position of the thread that owns the handles
    carg,         \* the handle the owner's current call works on
    data,         \* the detail::ThreadData record made by start() for each handle
    wpc,          \* position of the native thread spawned for each handle
    t_cachedTid,  \* CurrentThread::t_cachedTid of each spawned thread
    t_threadName, \* CurrentThread::t_threadName of each spawned thread
    iter,         \* iterations of the user function's loop completed
    readVal,      \* the user function's local copy of the counter (0 outside its scope)
    counter,      \* the shared counter the user functions increment
    funcCalls,    \* calls of func_() made by each spawned thread
    countDowns,   \* latch_->countDown() calls made by each spawned thread
    latchWaits,   \* latch_.wait() calls made for each handle
    dataFrees,    \* delete data executions for each handle's ThreadData record
    waits,        \* condition waits each plain thread has completed
    tls,          \* the thread-local variables of CurrentThread, per thread of the process
    child         \* the process made by fork(), NoChild before that

mutexVars == <<mutex_, holder_, mutexLife>>
plainVars == <<mpc, pairs>>
ctorVars == <<numCreated_, hstate, ctorArg, ctorNum, name_>>
handleVars == <<started_, joined_, pthreadId_, tid_, latch_, spawned, nativeJoins,
                detached, startRet, joinRet>>
ownerVars == <<cpc, carg>>
workerVars == <<data, wpc, t_cachedTid, t_threadName, iter, readVal, counter>>
callVars == <<funcCalls, countDowns, latchWaits, dataFrees>>
forkVars == <<tls, child>>
otherVars == <<waits, forkVars>>
vars == <<mutexVars, plainVars, aborted, ctorVars, handleVars, ownerVars, workerVars,
          callVars, otherVars>>

----------------------------------------------------------------------------
(* Bounds of the model *)

NumThreads == 3
MaxPairs == 2
NumHandles == 2
K == 2
NumObjects == 3

Threads == 1 .. NumThreads
Handles == 1 .. NumHandles

\* The Thread objects constructed in SpecNames, and every Thread object of
\* the model: the per-object variables are functions on AllHandles.
Objects == 1 .. NumObjects
AllHandles == Handles \cup Objects

NotReturned == 0 - 1

\* No ThreadData record has been allocated; nullptr is 0.
NoData == [life |-> "none", name_ |-> "", tid_ |-> 0, latch_ |-> 0]

----------------------------------------------------------------------------
(* Thread identities *)

\* detail::gettid: the kernel's id of thread number i, never 0; the main
\* thread is number 0.
gettid(i) == i + 1

----------------------------------------------------------------------------
(* MutexLock *)

\* MutexLock::MutexLock: holder_(0), the native mutex initialised unlocked.
MutexLock_ctor ==
    /\ holder_ = 0
    /\ mutex_ = 0
    /\ mutexLife = "alive"

MutexLock_lock_nowait(tid, step) ==
    IF step = 1
    THEN mutex_' = tid /\ UNCHANGED holder_
    ELSE holder_' = tid /\ UNCHANGED mutex_

MutexLock_lock_reversed(tid, step) ==
    IF step = 1
    THEN holder_' = tid /\ UNCHANGED mutex_
    ELSE mutex_ = 0 /\ mutex_' = tid /\ UNCHANGED holder_

\* A variant of lock() on a mutex of type PTHREAD_MUTEX_RECURSIVE.
MutexLock_lock_recursive(tid, step) ==
    IF step = 1
    THEN mutex_ \in {0, tid} /\ mutex_' = tid /\ UNCHANGED holder_
    ELSE holder_' = tid /\ UNCHANGED mutex_

\* MutexLock::lock: pthread_mutex_lock (blocks while the mutex is owned),
\* then assignHolder.
MutexLock_lock(tid, step) ==
    IF step = 1
    THEN mutex_ = 0 /\ mutex_' = tid /\ UNCHANGED holder_
    ELSE holder_' = tid /\ UNCHANGED mutex_

MutexLock_unlock_reversed(tid, step) ==
    IF step = 1
    THEN mutex_' = 0 /\ UNCHANGED holder_
    ELSE holder_' = 0 /\ UNCHANGED mutex_

\* MutexLock::unlock: unassignHolder, then pthread_mutex_unlock.
MutexLock_unlock(tid, step) ==
    IF step = 1
    THEN holder_' = 0 /\ UNCHANGED mutex_
    ELSE mutex_' = 0 /\ UNCHANGED holder_

MutexLock_dtor_noassert ==
    \/ /\ mutexLife = "alive"
       /\ mutexLife' = "destroying"
       /\ UNCHANGED <<mutex_, holder_, aborted>>
    \/ /\ mutexLife = "destroying"
       /\ mutex_ = 0
       /\ mutexLife' = "destroyed"
       /\ UNCHANGED <<mutex_, holder_, aborted>>
    \/ /\ mutexLife = "destroying"
       /\ mutex_ # 0
       /\ \/ aborted' = "MCHECK pthread_mutex_destroy" /\ UNCHANGED mutexLife
          \/ mutexLife' = "destroyed" /\ UNCHANGED aborted
       /\ UNCHANGED <<mutex_, holder_>>

\* MutexLock::~MutexLock: assert(holder_ == 0), then pthread_mutex_destroy.
\* Destroying a native mutex that a thread owns is undefined: it either
\* reports EBUSY, which MCHECK turns into an abort, or goes through.
MutexLock_dtor ==
    \/ /\ mutexLife = "alive"
       /\ holder_ # 0
       /\ aborted' = "assert holder_ == 0"
       /\ UNCHANGED <<mutex_, holder_, mutexLife>>
    \/ /\ mutexLife = "alive"
       /\ holder_ = 0
       /\ mutexLife' = "destroying"
       /\ UNCHANGED <<mutex_, holder_, aborted>>
    \/ /\ mutexLife = "destroying"
       /\ mutex_ = 0
       /\ mutexLife' = "destroyed"
       /\ UNCHANGED <<mutex_, holder_, aborted>>
    \/ /\ mutexLife = "destroying"
       /\ mutex_ # 0
       /\ \/ aborted' = "MCHECK pthread_mutex_destroy" /\ UNCHANGED mutexLife
          \/ mutexLife' = "destroyed" /\ UNCHANGED aborted
       /\ UNCHANGED <<mutex_, holder_>>

\* The process runs and the mutex has not been destroyed.
Running == aborted = "no" /\ mutexLife # "destroyed"

----------------------------------------------------------------------------
(* Plain threads taking the mutex through MutexLockGuard *)

\* MutexLockGuard::MutexLockGuard: mutex_.lock().
MutexLockGuard_ctor(t) ==
    /\ Running
    /\ pairs[t] < MaxPairs
    /\ \/ /\ mpc[t] = "idle"
          /\ MutexLock_lock(gettid(t), 1)
          /\ mpc' = [mpc EXCEPT ![t] = "lock_assign"]
       \/ /\ mpc[t] = "lock_assign"
          /\ MutexLock_lock(gettid(t), 2)
          /\ mpc' = [mpc EXCEPT ![t] = "cs"]
    /\ UNCHANGED <<mutexLife, pairs, aborted, ctorVars, handleVars, ownerVars,
                   workerVars, callVars, otherVars>>

\* MutexLockGuard::~MutexLockGuard: mutex_.unlock().
MutexLockGuard_dtor(t) ==
    /\ Running
    /\ \/ /\ mpc[t] = "cs"
          /\ MutexLock_unlock(gettid(t), 1)
          /\ mpc' = [mpc EXCEPT ![t] = "unlock_release"]
          /\ UNCHANGED pairs
       \/ /\ mpc[t] = "unlock_release"
          /\ MutexLock_unlock(gettid(t), 2)
          /\ mpc' = [mpc EXCEPT ![t] = "idle"]
          /\ pairs' = [pairs EXCEPT ![t] = @ + 1]
    /\ UNCHANGED <<mutexLife, aborted, ctorVars, handleVars, ownerVars, workerVars,
                   callVars, otherVars>>

\* The mutex's owner lets it go out of scope.
DestroyMutex ==
    /\ Running
    /\ MutexLock_dtor
    /\ UNCHANGED <<plainVars, ctorVars, handleVars, ownerVars, workerVars, callVars,
                   otherVars>>

----------------------------------------------------------------------------
(* Plain threads waiting on a condition, and locking twice *)

MaxWaits == 1

\* A variant of UnassignGuard's constructor that leaves holder_ as it is.
UnassignGuard_ctor_keep == UNCHANGED holder_

\* UnassignGuard::UnassignGuard: owner_.unassignHolder().
UnassignGuard_ctor == holder_' = 0

\* UnassignGuard::~UnassignGuard: owner_.assignHolder().
UnassignGuard_dtor(tid) == holder_' = tid

\* Condition::wait by thread t, which holds the mutex: an UnassignGuard
\* around pthread_cond_wait, which releases the native mutex, blocks, and
\* takes the mutex again when it wakes (notified or spuriously).
Condition_wait(t) ==
    /\ Running
    /\ \/ /\ mpc[t] = "cs"
          /\ waits[t] < MaxWaits
          /\ UnassignGuard_ctor
          /\ mpc' = [mpc EXCEPT ![t] = "w_unassigned"]
          /\ UNCHANGED <<mutex_, waits>>
       \/ /\ mpc[t] = "w_unassigned"
          /\ mutex_' = 0
          /\ mpc' = [mpc EXCEPT ![t] = "w_blocked"]
          /\ UNCHANGED <<holder_, waits>>
       \/ /\ mpc[t] = "w_blocked"
          /\ mutex_ = 0
          /\ mutex_' = gettid(t)
          /\ mpc' = [mpc EXCEPT ![t] = "w_reacquired"]
          /\ UNCHANGED <<holder_, waits>>
       \/ /\ mpc[t] = "w_reacquired"
          /\ UnassignGuard_dtor(gettid(t))
          /\ mpc' = [mpc EXCEPT ![t] = "cs"]
          /\ waits' = [waits EXCEPT ![t] = @ + 1]
          /\ UNCHANGED mutex_
    /\ UNCHANGED <<mutexLife, pairs, aborted, ctorVars, handleVars, ownerVars,
                   workerVars, callVars, forkVars>>

\* Thread t, which holds the mutex, calls lock() on it again.
Relock(t) ==
    /\ Running
    /\ \/ /\ mpc[t] = "cs"
          /\ mpc' = [mpc EXCEPT ![t] = "relock_wait"]
          /\ UNCHANGED <<mutex_, holder_>>
       \/ /\ mpc[t] = "relock_wait"
          /\ MutexLock_lock(gettid(t), 1)
          /\ mpc' = [mpc EXCEPT ![t] = "relock_assign"]
       \/ /\ mpc[t] = "relock_assign"
          /\ MutexLock_lock(gettid(t), 2)
          /\ mpc' = [mpc EXCEPT ![t] = "cs"]
    /\ UNCHANGED <<mutexLife, pairs, aborted, ctorVars, handleVars, ownerVars,
                   workerVars, callVars, otherVars>>

----------------------------------------------------------------------------
(* Thread: construction and default names *)

Int32Max == 2147483647
Int32Min == (0 - Int32Max) - 1
BufSize == 32

DigitChar(d) == <<"0", "1", "2", "3", "4", "5", "6", "7", "8", "9">>[d + 1]

RECURSIVE Digits(_)
\* The decimal digits of n >= 0.
Digits(n) == IF n < 10 THEN DigitChar(n) ELSE Digits(n \div 10) \o DigitChar(n % 10)

\* printf's %d.
FormatD(n) ==
    IF n >= 0
    THEN Digits(n)
    ELSE LET last == (10 - (n % 10)) % 10
             rest == 0 - ((n + last) \div 10)
         IN  "-" \o (IF rest = 0 THEN "" ELSE Digits(rest)) \o DigitChar(last)

\* snprintf(buf, sizeof(buf), "Thread%d", num): at most sizeof(buf) - 1 characters.
snprintf_Thread(num) ==
    LET s == "Thread" \o FormatD(num)
    IN  IF Len(s) > BufSize - 1 THEN SubSeq(s, 1, BufSize - 1) ELSE s

fetch_add_lost(n) == n

\* std::atomic_int32_t::fetch_add(1): the value stored; the call returns the
\* old value n. The atomic wraps around.
fetch_add(n) == IF n = Int32Max THEN Int32Min ELSE n + 1

\* The names a caller gives: none, or one of its own, which may look like a
\* default name.
NameArgs == {"", "worker", "Thread0"}

\* Thread::Thread and Thread::setDefaultName, on the handle h with the name
\* argument nm: the member initialisers and the fetch_add, then the name.
Thread_ctor(h, nm) ==
    /\ aborted = "no"
    /\ \/ /\ hstate[h] = "none"
          /\ hstate' = [hstate EXCEPT ![h] = "ctor"]
          /\ ctorArg' = [ctorArg EXCEPT ![h] = nm]
          /\ ctorNum' = [ctorNum EXCEPT ![h] = numCreated_]
          /\ numCreated_' = fetch_add(numCreated_)
          /\ name_' = [name_ EXCEPT ![h] = nm]
          /\ started_' = [started_ EXCEPT ![h] = FALSE]
          /\ joined_' = [joined_ EXCEPT ![h] = FALSE]
          /\ pthreadId_' = [pthreadId_ EXCEPT ![h] = 0]
          /\ tid_' = [tid_ EXCEPT ![h] = 0]
          /\ latch_' = [latch_ EXCEPT ![h] = 1]
       \/ /\ hstate[h] = "ctor"
          /\ nm = ctorArg[h]
          /\ hstate' = [hstate EXCEPT ![h] = "alive"]
          /\ name_' = [name_ EXCEPT ![h] =
                 IF name_[h] = "" THEN snprintf_Thread(ctorNum[h]) ELSE name_[h]]
          /\ UNCHANGED <<ctorArg, ctorNum, numCreated_, started_, joined_,
                         pthreadId_, tid_, latch_>>
    /\ UNCHANGED <<mutexVars, plainVars, aborted, spawned, nativeJoins, detached,
                   startRet, joinRet, ownerVars, workerVars, callVars, otherVars>>

\* The thread owning the handles constructs them one after the other; the
\* handles are numbered in the order of their construction. (The handles of
\* Spec are given no name; SpecNames constructs named ones too.)
Construct(h, nm) ==
    /\ cpc = "idle"
    /\ \A g \in Handles : g < h => hstate[g] \in {"alive", "destroyed"}
    /\ Thread_ctor(h, nm)

----------------------------------------------------------------------------
(* CountDownLatch (Base/countDownLatch.h) *)

\* CountDownLatch::countDown on a latch of count c.
countDown(c) == c - 1

\* CountDownLatch::wait returns once the count is 0.
waitReturns(c) == c = 0

----------------------------------------------------------------------------
(* The native thread of a handle: detail::startThread, ThreadData::runThread *)

\* CurrentThread::tid of the thread spawned for h: the cached id, cached by
\* cacheTid from gettid on the first call.
CurrentThread_tid(h) == IF t_cachedTid[h] = 0 THEN gettid(h) ELSE t_cachedTid[h]

runThread_prologue_swapped(h) ==
    \/ /\ wpc[h] = "publish"
       /\ latch_' = [latch_ EXCEPT ![data[h].latch_] = countDown(@)]
       /\ countDowns' = [countDowns EXCEPT ![h] = @ + 1]
       /\ data' = [data EXCEPT ![h].latch_ = 0]
       /\ wpc' = [wpc EXCEPT ![h] = "countdown"]
       /\ UNCHANGED <<tid_, t_cachedTid, t_threadName, funcCalls>>
    \/ /\ wpc[h] = "countdown"
       /\ t_cachedTid' = [t_cachedTid EXCEPT ![h] = CurrentThread_tid(h)]
       /\ tid_' = [tid_ EXCEPT ![data[h].tid_] = CurrentThread_tid(h)]
       /\ data' = [data EXCEPT ![h].tid_ = 0]
       /\ wpc' = [wpc EXCEPT ![h] = "setname"]
       /\ UNCHANGED <<latch_, t_threadName, funcCalls, countDowns>>
    \/ /\ wpc[h] = "setname"
       /\ t_threadName' = [t_threadName EXCEPT ![h] =
              IF data[h].name_ = "" THEN "LuteThread" ELSE data[h].name_]
       /\ funcCalls' = [funcCalls EXCEPT ![h] = @ + 1]
       /\ wpc' = [wpc EXCEPT ![h] = "func"]
       /\ UNCHANGED <<tid_, latch_, t_cachedTid, data, countDowns>>

\* A variant of the prologue that would count the latch down only after
\* func_ has returned.
runThread_prologue_latchlast(h) ==
    \/ /\ wpc[h] = "publish"
       /\ t_cachedTid' = [t_cachedTid EXCEPT ![h] = CurrentThread_tid(h)]
       /\ tid_' = [tid_ EXCEPT ![data[h].tid_] = CurrentThread_tid(h)]
       /\ data' = [data EXCEPT ![h].tid_ = 0]
       /\ wpc' = [wpc EXCEPT ![h] = "setname"]
       /\ UNCHANGED <<latch_, t_threadName, funcCalls, countDowns>>
    \/ /\ wpc[h] = "setname"
       /\ t_threadName' = [t_threadName EXCEPT ![h] =
              IF data[h].name_ = "" THEN "LuteThread" ELSE data[h].name_]
       /\ funcCalls' = [funcCalls EXCEPT ![h] = @ + 1]
       /\ wpc' = [wpc EXCEPT ![h] = "func"]
       /\ UNCHANGED <<tid_, latch_, t_cachedTid, data, countDowns>>

\* A variant of the prologue that counts the latch down a second time when
\* it sets the thread's name.
runThread_prologue_twice(h) ==
    \/ /\ wpc[h] = "publish"
       /\ t_cachedTid' = [t_cachedTid EXCEPT ![h] = CurrentThread_tid(h)]
       /\ tid_' = [tid_ EXCEPT ![data[h].tid_] = CurrentThread_tid(h)]
       /\ data' = [data EXCEPT ![h].tid_ = 0]
       /\ wpc' = [wpc EXCEPT ![h] = "countdown"]
       /\ UNCHANGED <<latch_, t_threadName, funcCalls, countDowns>>
    \/ /\ wpc[h] = "countdown"
       /\ latch_' = [latch_ EXCEPT ![data[h].latch_] = countDown(@)]
       /\ countDowns' = [countDowns EXCEPT ![h] = @ + 1]
       /\ wpc' = [wpc EXCEPT ![h] = "setname"]
       /\ UNCHANGED <<tid_, t_cachedTid, t_threadName, funcCalls, data>>
    \/ /\ wpc[h] = "setname"
       /\ latch_' = [latch_ EXCEPT ![data[h].latch_] = countDown(@)]
       /\ countDowns' = [countDowns EXCEPT ![h] = @ + 1]
       /\ data' = [data EXCEPT ![h].latch_ = 0]
       /\ t_threadName' = [t_threadName EXCEPT ![h] =
              IF data[h].name_ = "" THEN "LuteThread" ELSE data[h].name_]
       /\ funcCalls' = [funcCalls EXCEPT ![h] = @ + 1]
       /\ wpc' = [wpc EXCEPT ![h] = "func"]
       /\ UNCHANGED <<tid_, t_cachedTid>>

\* A variant of the prologue that keeps its pointers into the Thread object.
runThread_prologue_keepptr(h) ==
    \/ /\ wpc[h] = "publish"
       /\ t_cachedTid' = [t_cachedTid EXCEPT ![h] = CurrentThread_tid(h)]
       /\ tid_' = [tid_ EXCEPT ![data[h].tid_] = CurrentThread_tid(h)]
       /\ wpc' = [wpc EXCEPT ![h] = "countdown"]
       /\ UNCHANGED <<latch_, t_threadName, funcCalls, countDowns, data>>
    \/ /\ wpc[h] = "countdown"
       /\ latch_' = [latch_ EXCEPT ![data[h].latch_] = countDown(@)]
       /\ countDowns' = [countDowns EXCEPT ![h] = @ + 1]
       /\ wpc' = [wpc EXCEPT ![h] = "setname"]
       /\ UNCHANGED <<tid_, t_cachedTid, t_threadName, funcCalls, data>>
    \/ /\ wpc[h] = "setname"
       /\ t_threadName' = [t_threadName EXCEPT ![h] =
              IF data[h].name_ = "" THEN "LuteThread" ELSE data[h].name_]
       /\ funcCalls' = [funcCalls EXCEPT ![h] = @ + 1]
       /\ wpc' = [wpc EXCEPT ![h] = "func"]
       /\ UNCHANGED <<tid_, latch_, t_cachedTid, data, countDowns>>

\* A variant of the prologue that returns without calling func_.
runThread_prologue_nofunc(h) ==
    \/ /\ wpc[h] = "publish"
       /\ t_cachedTid' = [t_cachedTid EXCEPT ![h] = CurrentThread_tid(h)]
       /\ tid_' = [tid_ EXCEPT ![data[h].tid_] = CurrentThread_tid(h)]
       /\ data' = [data EXCEPT ![h].tid_ = 0]
       /\ wpc' = [wpc EXCEPT ![h] = "countdown"]
       /\ UNCHANGED <<latch_, t_threadName, funcCalls, countDowns>>
    \/ /\ wpc[h] = "countdown"
       /\ latch_' = [latch_ EXCEPT ![data[h].latch_] = countDown(@)]
       /\ countDowns' = [countDowns EXCEPT ![h] = @ + 1]
       /\ wpc' = [wpc EXCEPT ![h] = "nulllatch"]
       /\ UNCHANGED <<tid_, t_cachedTid, t_threadName, funcCalls, data>>
    \/ /\ wpc[h] = "nulllatch"
       /\ data' = [data EXCEPT ![h].latch_ = 0]
       /\ wpc' = [wpc EXCEPT ![h] = "setname"]
       /\ UNCHANGED <<tid_, latch_, t_cachedTid, t_threadName, funcCalls, countDowns>>
    \/ /\ wpc[h] = "setname"
       /\ t_threadName' = [t_threadName EXCEPT ![h] =
              IF data[h].name_ = "" THEN "LuteThread" ELSE data[h].name_]
       /\ wpc' = [wpc EXCEPT ![h] = "delete"]
       /\ UNCHANGED <<tid_, latch_, t_cachedTid, data, countDowns, funcCalls>>

\* ThreadData::runThread up to the call of func_: publish the identity through
\* tid_, count the latch down (the creator may run on from here), null the
\* latch pointer, set the thread's name and call func_().
runThread_prologue(h) ==
    \/ /\ wpc[h] = "publish"
       /\ t_cachedTid' = [t_cachedTid EXCEPT ![h] = CurrentThread_tid(h)]
       /\ tid_' = [tid_ EXCEPT ![data[h].tid_] = CurrentThread_tid(h)]
       /\ data' = [data EXCEPT ![h].tid_ = 0]
       /\ wpc' = [wpc EXCEPT ![h] = "countdown"]
       /\ UNCHANGED <<latch_, t_threadName, funcCalls, countDowns>>
    \/ /\ wpc[h] = "countdown"
       /\ latch_' = [latch_ EXCEPT ![data[h].latch_] = countDown(@)]
       /\ countDowns' = [countDowns EXCEPT ![h] = @ + 1]
       /\ wpc' = [wpc EXCEPT ![h] = "nulllatch"]
       /\ UNCHANGED <<tid_, t_cachedTid, t_threadName, funcCalls, data>>
    \/ /\ wpc[h] = "nulllatch"
       /\ data' = [data EXCEPT ![h].latch_ = 0]
       /\ wpc' = [wpc EXCEPT ![h] = "setname"]
       /\ UNCHANGED <<tid_, latch_, t_cachedTid, t_threadName, funcCalls, countDowns>>
    \/ /\ wpc[h] = "setname"
       /\ t_threadName' = [t_threadName EXCEPT ![h] =
              IF data[h].name_ = "" THEN "LuteThread" ELSE data[h].name_]
       /\ funcCalls' = [funcCalls EXCEPT ![h] = @ + 1]
       /\ wpc' = [wpc EXCEPT ![h] = "func"]
       /\ UNCHANGED <<tid_, latch_, t_cachedTid, data, countDowns>>

\* The first part of runThread, as a step of the spawned thread.
RunPrologue(h) ==
    /\ aborted = "no"
    /\ runThread_prologue(h)
    /\ UNCHANGED <<mutexVars, plainVars, aborted, ctorVars, started_, joined_,
                   pthreadId_, spawned, nativeJoins, detached, startRet, joinRet,
                   ownerVars, iter, readVal, counter, latchWaits, dataFrees,
                   otherVars>>

\* The user function given to every Thread: K times, with a MutexLockGuard
\* on the shared mutex, read the counter and write it back incremented.
\* The local copy lives from the read to the write.
UserFunc(h) ==
    /\ aborted = "no"
    /\ \/ /\ wpc[h] = "func"
          /\ iter[h] < K
          /\ MutexLock_lock(CurrentThread_tid(h), 1)
          /\ wpc' = [wpc EXCEPT ![h] = "f_assign"]
          /\ UNCHANGED <<iter, readVal, counter>>
       \/ /\ wpc[h] = "f_assign"
          /\ MutexLock_lock(CurrentThread_tid(h), 2)
          /\ wpc' = [wpc EXCEPT ![h] = "f_read"]
          /\ UNCHANGED <<iter, readVal, counter>>
       \/ /\ wpc[h] = "f_read"
          /\ readVal' = [readVal EXCEPT ![h] = counter]
          /\ wpc' = [wpc EXCEPT ![h] = "f_write"]
          /\ UNCHANGED <<mutex_, holder_, iter, counter>>
       \/ /\ wpc[h] = "f_write"
          /\ counter' = readVal[h] + 1
          /\ readVal' = [readVal EXCEPT ![h] = 0]
          /\ wpc' = [wpc EXCEPT ![h] = "f_unassign"]
          /\ UNCHANGED <<mutex_, holder_, iter>>
       \/ /\ wpc[h] = "f_unassign"
          /\ MutexLock_unlock(CurrentThread_tid(h), 1)
          /\ wpc' = [wpc EXCEPT ![h] = "f_release"]
          /\ UNCHANGED <<iter, readVal, counter>>
       \/ /\ wpc[h] = "f_release"
          /\ MutexLock_unlock(CurrentThread_tid(h), 2)
          /\ iter' = [iter EXCEPT ![h] = @ + 1]
          /\ wpc' = [wpc EXCEPT ![h] = "func"]
          /\ UNCHANGED <<readVal, counter>>
    /\ UNCHANGED <<mutexLife, plainVars, aborted, ctorVars, handleVars, ownerVars,
                   data, t_cachedTid, t_threadName, callVars, otherVars>>

\* What a user function can throw: a Lute::Exception, another
\* std::exception, anything else, or the forced unwind with which
\* pthread_exit and cancellation end a thread. The user function throws, if
\* it does, at the head of its loop.
Faults == {"Lute::Exception", "std::exception", "unknown", "forced unwind"}

\* ThreadData::runThread's try block: func_() returns and the name becomes
\* "finished", or func_() throws: the name becomes "crashed" and the handlers
\* call abort(); an exception that is neither is rethrown, leaves the thread's
\* start routine and ends the process through std::terminate; a forced
\* unwind is caught by catch (...) too, and rethrown it goes on unwinding: the
\* thread ends, startThread's delete data is skipped, the process lives.
runThread_outcome(h, fault) ==
    \/ /\ fault = "none"
       /\ wpc[h] = "func"
       /\ iter[h] = K
       /\ t_threadName' = [t_threadName EXCEPT ![h] = "finished"]
       /\ wpc' = [wpc EXCEPT ![h] = "delete"]
       /\ UNCHANGED aborted
    \/ /\ fault \in {"Lute::Exception", "std::exception"}
       /\ wpc[h] = "func"
       /\ t_threadName' = [t_threadName EXCEPT ![h] = "crashed"]
       /\ wpc' = [wpc EXCEPT ![h] = "crashed"]
       /\ aborted' = "abort: exception caught in Thread"
    \/ /\ fault = "unknown"
       /\ wpc[h] = "func"
       /\ t_threadName' = [t_threadName EXCEPT ![h] = "crashed"]
       /\ wpc' = [wpc EXCEPT ![h] = "crashed"]
       /\ aborted' = "terminate: unknown exception rethrown"
    \/ /\ fault = "forced unwind"
       /\ wpc[h] = "func"
       /\ t_threadName' = [t_threadName EXCEPT ![h] = "crashed"]
       /\ wpc' = [wpc EXCEPT ![h] = "unwound"]
       /\ UNCHANGED aborted

\* The end of the user function, as a step of the spawned thread.
RunOutcome(h, fault) ==
    /\ aborted = "no"
    /\ runThread_outcome(h, fault)
    /\ UNCHANGED <<mutexVars, plainVars, ctorVars, handleVars, ownerVars, data,
                   t_cachedTid, iter, readVal, counter, callVars, otherVars>>

\* detail::startThread after runThread: delete data, return nullptr; the
\* native thread has ended.
startThread_exit(h) ==
    /\ aborted = "no"
    /\ wpc[h] = "delete"
    /\ data' = [data EXCEPT ![h].life = "freed"]
    /\ dataFrees' = [dataFrees EXCEPT ![h] = @ + 1]
    /\ wpc' = [wpc EXCEPT ![h] = "exited"]
    /\ UNCHANGED <<mutexVars, plainVars, aborted, ctorVars, handleVars, ownerVars,
                   t_cachedTid, t_threadName, iter, readVal, counter, funcCalls,
                   countDowns, latchWaits, otherVars>>

----------------------------------------------------------------------------
(* Thread: start, join, destruction, called by the thread owning the handles *)

Thread_start_noassert(h) ==
    \/ /\ cpc = "idle"
       /\ started_' = [started_ EXCEPT ![h] = TRUE]
       /\ data' = [data EXCEPT ![h] =
              [life |-> "live", name_ |-> name_[h], tid_ |-> h, latch_ |-> h]]
       /\ pthreadId_' = [pthreadId_ EXCEPT ![h] = h]
       /\ spawned' = [spawned EXCEPT ![h] = @ + 1]
       /\ wpc' = [wpc EXCEPT ![h] = "publish"]
       /\ cpc' = "start_created"
       /\ carg' = h
       /\ UNCHANGED <<aborted, startRet, latchWaits, dataFrees>>
    \/ /\ cpc = "idle"
       /\ started_' = [started_ EXCEPT ![h] = FALSE]
       /\ data' = [data EXCEPT ![h] =
              [life |-> "freed", name_ |-> name_[h], tid_ |-> h, latch_ |-> h]]
       /\ dataFrees' = [dataFrees EXCEPT ![h] = @ + 1]
       /\ \E id \in {0, h} : pthreadId_' = [pthreadId_ EXCEPT ![h] = id]
       /\ aborted' = "abort: Failed in pthread_create"
       /\ carg' = h
       /\ UNCHANGED <<spawned, startRet, cpc, wpc, latchWaits>>
    \/ /\ cpc = "start_created"
       /\ carg = h
       /\ latchWaits' = [latchWaits EXCEPT ![h] = @ + 1]
       /\ cpc' = "start_wait"
       /\ UNCHANGED <<started_, pthreadId_, spawned, startRet, carg, data, wpc,
                      aborted, dataFrees>>
    \/ /\ cpc = "start_wait"
       /\ carg = h
       /\ waitReturns(latch_[h])
       /\ IF tid_[h] > 0
          THEN /\ startRet' = [startRet EXCEPT ![h] = TRUE]
               /\ cpc' = "idle"
               /\ carg' = 0
               /\ UNCHANGED aborted
          ELSE /\ aborted' = "assert tid_ > 0"
               /\ UNCHANGED <<startRet, ownerVars>>
       /\ UNCHANGED <<started_, pthreadId_, spawned, data, wpc, latchWaits, dataFrees>>

\* A variant of start() that returns to its caller when the spawn fails.
Thread_start_failreturns(h) ==
    \/ /\ cpc = "idle"
       /\ started_[h]
       /\ aborted' = "assert !started_"
       /\ carg' = h
       /\ UNCHANGED <<started_, pthreadId_, spawned, startRet, cpc, data, wpc,
                      latchWaits, dataFrees>>
    \/ /\ cpc = "idle"
       /\ ~started_[h]
       /\ started_' = [started_ EXCEPT ![h] = TRUE]
       /\ data' = [data EXCEPT ![h] =
              [life |-> "live", name_ |-> name_[h], tid_ |-> h, latch_ |-> h]]
       /\ pthreadId_' = [pthreadId_ EXCEPT ![h] = h]
       /\ spawned' = [spawned EXCEPT ![h] = @ + 1]
       /\ wpc' = [wpc EXCEPT ![h] = "publish"]
       /\ cpc' = "start_created"
       /\ carg' = h
       /\ UNCHANGED <<aborted, startRet, latchWaits, dataFrees>>
    \/ /\ cpc = "idle"
       /\ ~started_[h]
       /\ started_' = [started_ EXCEPT ![h] = FALSE]
       /\ data' = [data EXCEPT ![h] =
              [life |-> "freed", name_ |-> name_[h], tid_ |-> h, latch_ |-> h]]
       /\ dataFrees' = [dataFrees EXCEPT ![h] = @ + 1]
       /\ \E id \in {0, h} : pthreadId_' = [pthreadId_ EXCEPT ![h] = id]
       /\ carg' = 0
       /\ UNCHANGED <<aborted, spawned, startRet, cpc, wpc, latchWaits>>
    \/ /\ cpc = "start_created"
       /\ carg = h
       /\ latchWaits' = [latchWaits EXCEPT ![h] = @ + 1]
       /\ cpc' = "start_wait"
       /\ UNCHANGED <<started_, pthreadId_, spawned, startRet, carg, data, wpc,
                      aborted, dataFrees>>
    \/ /\ cpc = "start_wait"
       /\ carg = h
       /\ waitReturns(latch_[h])
       /\ IF tid_[h] > 0
          THEN /\ startRet' = [startRet EXCEPT ![h] = TRUE]
               /\ cpc' = "idle"
               /\ carg' = 0
               /\ UNCHANGED aborted
          ELSE /\ aborted' = "assert tid_ > 0"
               /\ UNCHANGED <<startRet, ownerVars>>
       /\ UNCHANGED <<started_, pthreadId_, spawned, data, wpc, latchWaits, dataFrees>>

\* Thread::start: assert(!started_); started_ = true; the ThreadData record;
\* pthread_create, which fails (started_ = false, delete data, abort, with
\* pthreadId_ left undefined: untouched or already written) or starts the
\* native thread in detail::startThread; then the call of latch_.wait(), its
\* return, and assert(tid_ > 0).
Thread_start(h) ==
    \/ /\ cpc = "idle"
       /\ started_[h]
       /\ aborted' = "assert !started_"
       /\ carg' = h
       /\ UNCHANGED <<started_, pthreadId_, spawned, startRet, cpc, data, wpc,
                      latchWaits, dataFrees>>
    \/ /\ cpc = "idle"
       /\ ~started_[h]
       /\ started_' = [started_ EXCEPT ![h] = TRUE]
       /\ data' = [data EXCEPT ![h] =
              [life |-> "live", name_ |-> name_[h], tid_ |-> h, latch_ |-> h]]
       /\ pthreadId_' = [pthreadId_ EXCEPT ![h] = h]
       /\ spawned' = [spawned EXCEPT ![h] = @ + 1]
       /\ wpc' = [wpc EXCEPT ![h] = "publish"]
       /\ cpc' = "start_created"
       /\ carg' = h
       /\ UNCHANGED <<aborted, startRet, latchWaits, dataFrees>>
    \/ /\ cpc = "idle"
       /\ ~started_[h]
       /\ started_' = [started_ EXCEPT ![h] = FALSE]
       /\ data' = [data EXCEPT ![h] =
              [life |-> "freed", name_ |-> name_[h], tid_ |-> h, latch_ |-> h]]
       /\ dataFrees' = [dataFrees EXCEPT ![h] = @ + 1]
       /\ \E id \in {0, h} : pthreadId_' = [pthreadId_ EXCEPT ![h] = id]
       /\ aborted' = "abort: Failed in pthread_create"
       /\ carg' = h
       /\ UNCHANGED <<spawned, startRet, cpc, wpc, latchWaits>>
    \/ /\ cpc = "start_created"
       /\ carg = h
       /\ latchWaits' = [latchWaits EXCEPT ![h] = @ + 1]
       /\ cpc' = "start_wait"
       /\ UNCHANGED <<started_, pthreadId_, spawned, startRet, carg, data, wpc,
                      aborted, dataFrees>>
    \/ /\ cpc = "start_wait"
       /\ carg = h
       /\ waitReturns(latch_[h])
       /\ IF tid_[h] > 0
          THEN /\ startRet' = [startRet EXCEPT ![h] = TRUE]
               /\ cpc' = "idle"
               /\ carg' = 0
               /\ UNCHANGED aborted
          ELSE /\ aborted' = "assert tid_ > 0"
               /\ UNCHANGED <<startRet, ownerVars>>
       /\ UNCHANGED <<started_, pthreadId_, spawned, data, wpc, latchWaits, dataFrees>>

\* A call of start() on a live handle, and its later steps.
Start(h) ==
    /\ aborted = "no"
    /\ hstate[h] = "alive"
    /\ Thread_start(h)
    /\ UNCHANGED <<mutexVars, plainVars, ctorVars, joined_, tid_, latch_,
                   nativeJoins, detached, joinRet, t_cachedTid, t_threadName, iter,
                   readVal, counter, funcCalls, countDowns, otherVars>>

Thread_join_noassert(h) ==
    \/ /\ cpc = "idle"
       /\ joined_' = [joined_ EXCEPT ![h] = TRUE]
       /\ nativeJoins' = [nativeJoins EXCEPT ![h] = @ + 1]
       /\ cpc' = "join_wait"
       /\ carg' = h
       /\ UNCHANGED <<aborted, joinRet>>
    \/ /\ cpc = "join_wait"
       /\ carg = h
       /\ wpc[h] \in {"exited", "unwound"}
       /\ joinRet' = [joinRet EXCEPT ![h] = 0]
       /\ cpc' = "idle"
       /\ carg' = 0
       /\ UNCHANGED <<aborted, joined_, nativeJoins>>

\* Thread::join: assert(started_); assert(!joined_); joined_ = true; then
\* pthread_join, which returns 0 once the native thread has ended.
Thread_join(h) ==
    \/ /\ cpc = "idle"
       /\ ~(started_[h] /\ ~joined_[h])
       /\ aborted' = IF started_[h] THEN "assert !joined_" ELSE "assert started_"
       /\ carg' = h
       /\ UNCHANGED <<joined_, nativeJoins, joinRet, cpc>>
    \/ /\ cpc = "idle"
       /\ started_[h]
       /\ ~joined_[h]
       /\ joined_' = [joined_ EXCEPT ![h] = TRUE]
       /\ nativeJoins' = [nativeJoins EXCEPT ![h] = @ + 1]
       /\ cpc' = "join_wait"
       /\ carg' = h
       /\ UNCHANGED <<aborted, joinRet>>
    \/ /\ cpc = "join_wait"
       /\ carg = h
       /\ wpc[h] \in {"exited", "unwound"}
       /\ joinRet' = [joinRet EXCEPT ![h] = 0]
       /\ cpc' = "idle"
       /\ carg' = 0
       /\ UNCHANGED <<aborted, joined_, nativeJoins>>

\* A call of join() on a live handle, and its return.
Join(h) ==
    /\ aborted = "no"
    /\ hstate[h] = "alive"
    /\ Thread_join(h)
    /\ UNCHANGED <<mutexVars, plainVars, ctorVars, started_, pthreadId_, tid_,
                   latch_, spawned, detached, startRet, workerVars, callVars,
                   otherVars>>

\* A variant of the destructor that detaches every started thread.
Thread_dtor_nojoined(h) ==
    /\ aborted = "no"
    /\ cpc = "idle"
    /\ hstate[h] = "alive"
    /\ hstate' = [hstate EXCEPT ![h] = "destroyed"]
    /\ detached' = [detached EXCEPT ![h] = started_[h]]
    /\ UNCHANGED <<mutexVars, plainVars, aborted, numCreated_, ctorArg, ctorNum,
                   name_, started_, joined_, pthreadId_, tid_, latch_, spawned,
                   nativeJoins, startRet, joinRet, ownerVars, workerVars, callVars,
                   otherVars>>

\* Thread::~Thread: pthread_detach if started_ && !joined_.
Thread_dtor(h) ==
    /\ aborted = "no"
    /\ cpc = "idle"
    /\ hstate[h] = "alive"
    /\ hstate' = [hstate EXCEPT ![h] = "destroyed"]
    /\ detached' = [detached EXCEPT ![h] = started_[h] /\ ~joined_[h]]
    /\ UNCHANGED <<mutexVars, plainVars, aborted, numCreated_, ctorArg, ctorNum,
                   name_, started_, joined_, pthreadId_, tid_, latch_, spawned,
                   nativeJoins, startRet, joinRet, ownerVars, workerVars, callVars,
                   otherVars>>

----------------------------------------------------------------------------
(* CurrentThread's thread-local cache and fork *)

\* The threads a process may have: NumThreads of them, the main thread 0 first.
ProcThreads == 0 .. (NumThreads - 1)

\* The kernel ids a new process's thread may be given: those of the threads
\* and one more.
KernelTids == 1 .. (NumThreads + 1)

\* The thread-local variables of a thread that has not run yet.
FreshTls == [live |-> FALSE, t_cachedTid |-> 0, t_tidString |-> "",
             t_threadName |-> "unknown"]

NoChild == [pc |-> "none", pidns |-> "", forker |-> 0, ktid |-> 0, inherited |-> 0,
            inheritedName |-> "",
            t_cachedTid |-> 0, t_tidString |-> "", t_threadName |-> ""]

\* The pid namespace of a child: its parent's, or another one after
\* unshare(CLONE_NEWPID) or setns(), in which ids are given independently.
PidNamespaces == {"parent", "other"}

RECURSIVE PadLeft(_, _)
PadLeft(s, w) == IF Len(s) >= w THEN s ELSE PadLeft(" " \o s, w)

\* snprintf(t_tidString, sizeof t_tidString, "%5d ", t_cachedTid)
snprintf_tid(tid) == PadLeft(FormatD(tid), 5) \o " "

\* CurrentThread::cacheTid by a thread whose kernel id is ktid, on its
\* thread-local variables loc.
cacheTid(loc, ktid) ==
    IF loc.t_cachedTid = 0
    THEN [loc EXCEPT !.t_cachedTid = ktid, !.t_tidString = snprintf_tid(ktid)]
    ELSE loc

\* The constructor of the static ThreadNameInitializer, run by the main thread.
ThreadNameInitializer(loc, ktid) ==
    cacheTid([loc EXCEPT !.t_threadName = "main"], ktid)

\* A variant of the fork callback that leaves the inherited cache in place.
afterFork_noreset(loc, ktid) ==
    cacheTid([loc EXCEPT !.t_threadName = "main"], ktid)

\* detail::afterFork, run in the child by the thread that called fork().
afterFork(loc, ktid) ==
    cacheTid([loc EXCEPT !.t_cachedTid = 0, !.t_threadName = "main"], ktid)

ForkFrame ==
    UNCHANGED <<mutexVars, plainVars, aborted, ctorVars, handleVars, ownerVars,
                workerVars, callVars, waits>>

\* A thread other than the main thread begins, with fresh thread-locals.
ThreadBegin(t) ==
    /\ aborted = "no"
    /\ t # 0
    /\ ~tls[t].live
    /\ tls' = [tls EXCEPT ![t].live = TRUE]
    /\ UNCHANGED child
    /\ ForkFrame

\* A thread's first call of CurrentThread::tid().
Tid(t) ==
    /\ aborted = "no"
    /\ tls[t].live
    /\ tls[t].t_cachedTid = 0
    /\ tls' = [tls EXCEPT ![t] = cacheTid(@, gettid(t))]
    /\ UNCHANGED child
    /\ ForkFrame

\* The names Thread gives to ThreadData: name_ is never empty after
\* setDefaultName.
ThreadNames == {"Thread0", "worker"}

\* The names a thread can have while it is in func_.
RunningNames == ThreadNames \cup {"LuteThread"}

\* The name and the fate of the process after func_: "finished" when it
\* returned; "crashed" and the end of the process in the handlers, except
\* that a forced unwind goes on and ends the thread only.
EndName(fault) == IF fault = "none" THEN "finished" ELSE "crashed"
EndsProcess(fault) == fault \notin {"none", "forced unwind"}

\* runThread names the thread it runs on, after it has called tid(): the
\* name in ThreadData, or "LuteThread" if that is empty.
RunThreadName(t, nm) ==
    /\ aborted = "no"
    /\ t # 0
    /\ tls[t].live
    /\ tls[t].t_cachedTid # 0
    /\ tls[t].t_threadName = "unknown"
    /\ tls' = [tls EXCEPT ![t].t_threadName = IF nm = "" THEN "LuteThread" ELSE nm]
    /\ UNCHANGED child
    /\ ForkFrame

\* runThread after func_: the thread is named "finished" when func_ has
\* returned, and "crashed" in the handlers, which end the process unless
\* what they caught is a forced unwind.
RunThreadEnd(t, fault) ==
    /\ aborted = "no"
    /\ t # 0
    /\ tls[t].live
    /\ tls[t].t_threadName \in RunningNames
    /\ tls' = [tls EXCEPT ![t].t_threadName = EndName(fault)]
    /\ aborted' = IF ~EndsProcess(fault) THEN aborted
                  ELSE IF fault = "unknown"
                       THEN "terminate: unknown exception rethrown"
                       ELSE "abort: exception caught in Thread"
    /\ UNCHANGED <<mutexVars, plainVars, ctorVars, handleVars, ownerVars,
                   workerVars, callVars, waits, child>>

\* A thread other than the main thread ends: one that did not come from
\* Thread, one whose runThread and startThread have returned, or one that a
\* forced unwind takes out of runThread. Its thread-locals are
\* gone and the kernel may give its id to a later thread.
ThreadEnd(t) ==
    /\ aborted = "no"
    /\ t # 0
    /\ tls[t].live
    /\ tls[t].t_threadName \in {"unknown", "finished", "crashed"}
    /\ tls' = [tls EXCEPT ![t] = FreshTls]
    /\ UNCHANGED child
    /\ ForkFrame

\* Thread t calls fork(): the child has one thread, which is where t was,
\* and a copy of t's thread-local variables. In the parent's pid namespace
\* the thread's kernel id k is one no thread alive now has (the id of a
\* thread that has ended may be used again); in another pid namespace it is
\* any id, the forking thread's own included.
Fork(t, k, ns) ==
    /\ aborted = "no"
    /\ child.pc = "none"
    /\ tls[t].live
    /\ ns = "parent" => k \notin {gettid(u) : u \in {v \in ProcThreads : tls[v].live}}
    /\ child' = [pc |-> "atfork", pidns |-> ns, forker |-> t, ktid |-> k,
                 inherited |-> tls[t].t_cachedTid,
                 inheritedName |-> tls[t].t_threadName,
                 t_cachedTid |-> tls[t].t_cachedTid,
                 t_tidString |-> tls[t].t_tidString,
                 t_threadName |-> tls[t].t_threadName]
    /\ UNCHANGED tls
    /\ ForkFrame

\* The child runs the callback registered with pthread_atfork before fork()
\* returns in it.
ChildAfterFork ==
    /\ child.pc = "atfork"
    /\ child' = [afterFork(child, child.ktid) EXCEPT !.pc = "running"]
    /\ UNCHANGED tls
    /\ ForkFrame

\* The child's thread runs on from the fork() call. When that call was
\* made inside func_ of a Thread, the child is in runThread too and names
\* itself "finished" or "crashed" as the parent's thread does; a crash that
\* ends the process ends the child only.
ChildRunThreadEnd(fault) ==
    /\ child.pc = "running"
    /\ child.inheritedName \in RunningNames
    /\ child' = [child EXCEPT
                   !.t_threadName = EndName(fault),
                   !.pc = IF EndsProcess(fault) THEN "aborted" ELSE "ended"]
    /\ UNCHANGED tls
    /\ ForkFrame

----------------------------------------------------------------------------
(* Initial state *)

InitMutex == MutexLock_ctor

InitPlain ==
    /\ mpc = [t \in Threads |-> "idle"]
    /\ pairs = [t \in Threads |-> 0]
    /\ waits = [t \in Threads |-> 0]

\* After static initialisation: the main thread has run ThreadNameInitializer.
InitFork ==
    /\ tls = [t \in ProcThreads |->
                 IF t = 0
                 THEN ThreadNameInitializer([FreshTls EXCEPT !.live = TRUE], gettid(0))
                 ELSE FreshTls]
    /\ child = NoChild

InitHandles ==
    /\ hstate = [h \in AllHandles |-> "none"]
    /\ ctorArg = [h \in AllHandles |-> ""]
    /\ ctorNum = [h \in AllHandles |-> 0]
    /\ name_ = [h \in AllHandles |-> ""]
    /\ started_ = [h \in AllHandles |-> FALSE]
    /\ joined_ = [h \in AllHandles |-> FALSE]
    /\ pthreadId_ = [h \in AllHandles |-> 0]
    /\ tid_ = [h \in AllHandles |-> 0]
    /\ latch_ = [h \in AllHandles |-> 0]
    /\ spawned = [h \in AllHandles |-> 0]
    /\ nativeJoins = [h \in AllHandles |-> 0]
    /\ detached = [h \in AllHandles |-> FALSE]
    /\ startRet = [h \in AllHandles |-> FALSE]
    /\ joinRet = [h \in AllHandles |-> NotReturned]
    /\ cpc = "idle"
    /\ carg = 0
    /\ data = [h \in AllHandles |-> NoData]
    /\ wpc = [h \in AllHandles |-> "none"]
    /\ t_cachedTid = [h \in AllHandles |-> 0]
    /\ t_threadName = [h \in AllHandles |-> ""]
    /\ iter = [h \in AllHandles |-> 0]
    /\ readVal = [h \in AllHandles |-> 0]
    /\ counter = 0
    /\ funcCalls = [h \in AllHandles |-> 0]
    /\ countDowns = [h \in AllHandles |-> 0]
    /\ latchWaits = [h \in AllHandles |-> 0]
    /\ dataFrees = [h \in AllHandles |-> 0]

\* Thread::numCreated_ is a static std::atomic_int32_t: zero-initialised.
Init ==
    /\ InitMutex
    /\ InitPlain
    /\ InitFork
    /\ InitHandles
    /\ aborted = "no"
    /\ numCreated_ = 0

\* The values of numCreated_ the constructions of SpecNames start from: a
\* fresh process, and a process that has constructed Int32Max Threads, so
\* that the counter wraps around.
CounterStarts == {0, Int32Max}

InitNames ==
    /\ InitMutex
    /\ InitPlain
    /\ InitFork
    /\ InitHandles
    /\ aborted = "no"
    /\ numCreated_ \in CounterStarts

----------------------------------------------------------------------------
(* The mutex used by plain threads *)

NextMutex ==
    \/ \E t \in Threads : MutexLockGuard_ctor(t)
    \/ \E t \in Threads : MutexLockGuard_dtor(t)
    \/ DestroyMutex

SpecMutex == Init /\ [][NextMutex]_vars

----------------------------------------------------------------------------
(* The mutex used with a condition wait and with a second lock() *)

NextCond ==
    \/ \E t \in Threads : MutexLockGuard_ctor(t)
    \/ \E t \in Threads : MutexLockGuard_dtor(t)
    \/ \E t \in Threads : Condition_wait(t)
    \/ \E t \in Threads : Relock(t)

SpecCond == Init /\ [][NextCond]_vars

----------------------------------------------------------------------------
(* Thread handles, their native threads and the shared mutex *)

Next ==
    \/ \E h \in Handles : Construct(h, "")
    \/ \E h \in Handles : Start(h)
    \/ \E h \in Handles : Join(h)
    \/ \E h \in Handles : Thread_dtor(h)
    \/ \E h \in Handles : RunPrologue(h)
    \/ \E h \in Handles : UserFunc(h)
    \/ \E h \in Handles, f \in Faults \cup {"none"} : RunOutcome(h, f)
    \/ \E h \in Handles : startThread_exit(h)

Spec == Init /\ [][Next]_vars

----------------------------------------------------------------------------
(* Threads constructing Thread objects concurrently, named or not *)

NextNames == \E h \in Objects, nm \in NameArgs : Thread_ctor(h, nm)

SpecNames == InitNames /\ [][NextNames]_vars

----------------------------------------------------------------------------
(* A process whose threads cache their ids and one of which forks *)

NextFork ==
    \/ \E t \in ProcThreads : ThreadBegin(t)
    \/ \E t \in ProcThreads : Tid(t)
    \/ \E t \in ProcThreads : \E nm \in ThreadNames : RunThreadName(t, nm)
    \/ \E t \in ProcThreads : \E f \in Faults \cup {"none"} : RunThreadEnd(t, f)
    \/ \E t \in ProcThreads : \E k \in KernelTids :
          \E ns \in PidNamespaces : Fork(t, k, ns)
    \/ \E t \in ProcThreads : ThreadEnd(t)
    \/ ChildAfterFork
    \/ \E f \in Faults \cup {"none"} : ChildRunThreadEnd(f)

SpecFork == Init /\ [][NextFork]_vars

----------------------------------------------------------------------------
(* Threads whose user function does not return, under fair scheduling *)

\* The user function never returns: a spawned thread that has called func_
\* takes no further step of runThread.
NextLive ==
    \/ \E h \in Handles : Construct(h, "")
    \/ \E h \in Handles : Start(h)
    \/ \E h \in Handles : Join(h)
    \/ \E h \in Handles : Thread_dtor(h)
    \/ \E h \in Handles : RunPrologue(h)

\* The scheduler runs every spawned thread that can take a step, and the
\* creator once its latch wait can return.
FairLive ==
    \A h \in Handles :
        /\ WF_vars(RunPrologue(h))
        /\ WF_vars(cpc \in {"start_created", "start_wait"} /\ Start(h))

SpecLive == Init /\ [][NextLive]_vars /\ FairLive

----------------------------------------------------------------------------
(* Properties of the mutex, checked under SpecMutex *)

\* Thread t is between the return of its lock() and the start of its unlock().
InRegion(t) == mpc[t] = "cs"

\* C1: mutual exclusion. At most one thread is between the return of its
\* lock() and the start of its unlock(), and holder_ never names a thread
\* that is not in that region.
C1_MutualExclusion ==
    /\ Cardinality({t \in Threads : InRegion(t)}) <= 1
    /\ \A t \in Threads : holder_ = gettid(t) => InRegion(t)

\* A thread is in its region after it and another thread have each already
\* completed a lock()/unlock() pair.
C1_Witness ==
    \E t, u \in Threads :
        /\ t # u
        /\ InRegion(t)
        /\ holder_ = gettid(t)
        /\ pairs[t] >= 1
        /\ pairs[u] >= 1

\* C2: holder_ equals T's identity in every state from the return of T's
\* lock() to the start of T's unlock(): no other thread's lock() or pending
\* clear overwrites it.
C2_HolderStable ==
    \A t \in Threads : InRegion(t) => holder_ = gettid(t)

\* T is in its region while another thread has just finished its unlock()
\* (its clear of holder_ came before T's lock()).
C2_Witness ==
    \E t, u \in Threads :
        /\ t # u
        /\ InRegion(t)
        /\ mpc[u] = "idle"
        /\ pairs[u] = MaxPairs
        /\ holder_ = gettid(t)

\* C3: whenever no thread owns the native mutex, holder_ is 0.
C3_FreeImpliesUnowned == mutex_ = 0 => holder_ = 0

\* The native mutex is free again after a thread's unlock().
C3_Witness ==
    /\ mutex_ = 0
    /\ holder_ = 0
    /\ \E t \in Threads : pairs[t] >= 1

\* C9: a destructor that runs while holder_ # 0 ends in the assertion, and
\* the mutex leaves the state "alive" (towards pthread_mutex_destroy) only
\* in a step taken with holder_ = 0.
C9_DestroyHeldAsserts ==
    [][/\ (mutexLife = "alive" /\ mutexLife' # "alive") => holder_ = 0
       /\ (DestroyMutex /\ mutexLife = "alive" /\ holder_ # 0)
              => aborted' = "assert holder_ == 0"]_vars

\* The destructor ran while a thread held the mutex and the assertion fired.
C9_Witness ==
    /\ aborted = "assert holder_ == 0"
    /\ holder_ # 0
    /\ mutexLife = "alive"
    /\ \E t \in Threads : InRegion(t)

----------------------------------------------------------------------------
(* Properties of Thread, checked under Spec *)

\* The handles for which a native thread was created.
Spawned == {h \in Handles : spawned[h] > 0}

\* C4: when start() has returned, tid_ holds the spawned thread's own
\* identity, which is > 0; and whenever the latch of a spawned thread is
\* open, tid_ is already written, so that start() never finds tid_ = 0.
C4_StartPublishesTid ==
    \A h \in Handles :
        /\ startRet[h] => tid_[h] = gettid(h) /\ tid_[h] > 0
        /\ (h \in Spawned /\ waitReturns(latch_[h])) => tid_[h] > 0
        /\ aborted # "assert tid_ > 0"

\* start() has returned for a handle whose thread has not yet started the
\* user function.
C4_Witness ==
    \E h \in Handles :
        /\ startRet[h]
        /\ wpc[h] = "setname"
        /\ tid_[h] = gettid(h)

RECURSIVE IterSum(_)
\* The iterations the threads of the handles in S have made.
IterSum(S) == IF S = {} THEN 0
              ELSE LET h == CHOOSE x \in S : TRUE IN iter[h] + IterSum(S \ {h})

\* C5: no lost updates. Once join() has returned for every thread that was
\* started, the counter is the number of iterations the threads have made:
\* K times their number when each has made its K iterations, 2 * K for two.
C5_NoLostUpdates ==
    (\A h \in Spawned : joinRet[h] = 0)
        => /\ counter = IterSum(Spawned)
           /\ (\A h \in Spawned : iter[h] = K) => counter = K * Cardinality(Spawned)

\* Two threads were started and joined, and the counter is 2 * K.
C5_Witness ==
    \E g, h \in Handles :
        /\ g # h
        /\ Spawned = {g, h}
        /\ joinRet[g] = 0
        /\ joinRet[h] = 0
        /\ iter[g] = K /\ iter[h] = K
        /\ counter = 2 * K

\* C6: when join() has returned, the handle is joined and the user function
\* has run to completion on the spawned thread, its writes to the counter
\* made; a user function that faults ends the process, and join() on its
\* handle has not returned.
C6_JoinAfterCompletion ==
    \A h \in Handles :
        /\ joinRet[h] # NotReturned =>
              /\ joined_[h]
              /\ wpc[h] = "exited"
              /\ t_threadName[h] = "finished"
              /\ iter[h] = K
              /\ counter >= K
        /\ t_threadName[h] = "crashed" =>
              /\ aborted # "no"
              /\ joinRet[h] = NotReturned

\* C7: a native thread is created for a handle only by a start() that finds
\* started_ false, at most once per handle; start() on a handle whose
\* started_ is true ends in the assertion.
C7_StartAtMostOnce ==
    [][\A h \in Handles :
          /\ spawned'[h] # spawned[h] => (~started_[h] /\ spawned'[h] = 1)
          /\ (Start(h) /\ cpc = "idle" /\ started_[h]) =>
                (aborted' = "assert !started_" /\ spawned' = spawned)]_vars

\* start() was called on a handle already started and joined, and asserted.
C7_Witness ==
    \E h \in Handles :
        /\ aborted = "assert !started_"
        /\ carg = h
        /\ joinRet[h] = 0
        /\ spawned[h] = 1

\* C8: while the process runs, joined_ implies started_; pthread_join is
\* called at most once per handle and only for a handle that was started.
C8_JoinOnlyStartedOnce ==
    \A h \in Handles :
        /\ aborted = "no" => (joined_[h] => started_[h])
        /\ nativeJoins[h] <= 1
        /\ nativeJoins[h] <= spawned[h]
        /\ aborted = "assert started_" /\ carg = h => nativeJoins[h] = 0
        /\ aborted = "assert !joined_" /\ carg = h => nativeJoins[h] = 1

\* join() was called a second time, after the first had returned, and asserted.
C8_Witness ==
    \E h \in Handles :
        /\ aborted = "assert !joined_"
        /\ carg = h
        /\ joinRet[h] = 0
        /\ nativeJoins[h] = 1

----------------------------------------------------------------------------
(* Properties of the default names, checked under SpecNames *)

\* The constructed Thread objects that were given no name.
DefaultNamed == {h \in Objects : hstate[h] = "alive" /\ ctorArg[h] = ""}

\* C10: the Thread objects constructed with an empty name have pairwise
\* distinct names, each "Thread" followed by the decimal form of the value
\* its own fetch_add returned, and these values are pairwise distinct.
C10_DefaultNamesDistinct ==
    \A g, h \in DefaultNamed :
        /\ name_[h] = "Thread" \o FormatD(ctorNum[h])
        /\ g # h => (name_[g] # name_[h] /\ ctorNum[g] # ctorNum[h])

\* Two unnamed objects are constructed, the one that took its number later
\* finishing first, while a named object is between its fetch_add and the
\* end of its constructor.
C10_Witness ==
    \E f, g, h \in Objects :
        /\ g \in DefaultNamed
        /\ h \in DefaultNamed
        /\ g # h
        /\ hstate[f] = "ctor"
        /\ ctorArg[f] # ""
        /\ ctorNum[g] < ctorNum[f]
        /\ ctorNum[f] < ctorNum[h]

----------------------------------------------------------------------------
(* The first default names, checked under Spec: a fresh process, whose *)
(* handles are constructed without a name, in the order of their numbers *)

\* C11: in a fresh process the first Thread constructed with an empty name is
\* named "Thread1" and the second "Thread2".
C11_FirstNamesFromOne ==
    /\ hstate[1] = "alive" => name_[1] = "Thread1"
    /\ hstate[2] = "alive" => name_[2] = "Thread2"

\* C12: the user function of a Thread is called exactly once: never before
\* start() has spawned the thread, never twice, and a spawned thread that has
\* left runThread (or has been joined) has called it.
C12_FuncExactlyOnce ==
    \A h \in Handles :
        /\ funcCalls[h] <= 1
        /\ funcCalls[h] > 0 => (spawned[h] = 1 /\ started_[h])
        /\ iter[h] > 0 => funcCalls[h] = 1
        /\ wpc[h] \in {"delete", "exited", "crashed", "unwound"} => funcCalls[h] = 1
        /\ joinRet[h] # NotReturned => funcCalls[h] = 1

C12_Witness ==
    \E h \in Handles :
        /\ wpc[h] = "exited"
        /\ joinRet[h] # NotReturned
        /\ iter[h] = K
        /\ funcCalls[h] = 1

\* C13: destroying a Thread handle detaches the native thread exactly when the
\* thread was started and join() was never called on it; a never-started or a
\* joined handle is destroyed without a detach; and the destructor is one step
\* the owner can always take, whatever the spawned thread is doing.
C13_DtorDetachesIffUnjoined ==
    /\ [][\A h \in Handles :
             (hstate[h] = "alive" /\ hstate'[h] = "destroyed")
                 => /\ detached'[h] <=> (spawned[h] = 1 /\ nativeJoins[h] = 0)
                    /\ wpc'[h] = wpc[h]]_vars
    /\ [](\A h \in Handles :
             /\ detached[h] => hstate[h] = "destroyed"
             /\ (aborted = "no" /\ cpc = "idle" /\ hstate[h] = "alive")
                    => ENABLED Thread_dtor(h))

C13_Witness ==
    \E h, g \in Handles :
        /\ hstate[h] = "destroyed" /\ detached[h]
        /\ wpc[h] = "f_read"
        /\ hstate[g] = "destroyed" /\ ~detached[g]
        /\ nativeJoins[g] = 1

\* C14: when pthread_create fails in start(), the creator frees the ThreadData
\* record, no thread runs startThread for the handle, and the process aborts:
\* start() does not return, so the handle with started_ rolled back to false
\* is never seen by a running program.
C14_FailedSpawnAborts ==
    \A h \in Handles :
        /\ (aborted = "abort: Failed in pthread_create" /\ carg = h)
               => /\ data[h].life = "freed" /\ dataFrees[h] = 1
                  /\ wpc[h] = "none" /\ spawned[h] = 0 /\ funcCalls[h] = 0
                  /\ ~started_[h] /\ ~startRet[h]
        /\ (dataFrees[h] > 0 /\ spawned[h] = 0)
               => (aborted = "abort: Failed in pthread_create" /\ carg = h)
        /\ (aborted = "no" /\ data[h].life # "none") => started_[h]

C14_Witness ==
    \E h \in Handles :
        /\ aborted = "abort: Failed in pthread_create"
        /\ carg = h
        /\ data[h].life = "freed"
        /\ ~started_[h]

\* C15: after fork() the callback in the child resets the cached id, names the
\* thread "main" and caches again, so that the child's cached id is its own
\* kernel id and differs from the id cached before the fork; the cached id
\* of the parent's thread, while that thread lives, is what it was.
C15_ForkReprimesChild ==
    /\ child.pc = "running"
          => /\ child.t_cachedTid = child.ktid
             /\ child.t_cachedTid # child.inherited
             /\ child.t_threadName = "main"
    /\ (child.pc # "none" /\ child.inherited # 0 /\ tls[child.forker].live)
          => tls[child.forker].t_cachedTid = child.inherited

\* C15 as amended: the callback in the child leaves the thread named "main"
\* and the cached id and id string those of the child's own kernel id; the
\* cache keeps that id while the child runs on, whereas the name is
\* overwritten if the child runs on inside runThread; the cached id differs
\* from the inherited one whenever the child's kernel id does, which is
\* always so for a child in its parent's pid namespace; and the fork and the
\* child's steps leave the thread-locals of the parent as they were, where
\* the cache of a thread that is alive never changes once set.
C15_ForkReprimesChildOwnId ==
    /\ [][(child.pc = "atfork" /\ child' # child)
             => /\ child'.pc = "running"
                /\ child'.t_threadName = "main"
                /\ child'.t_cachedTid = child.ktid
                /\ child'.t_tidString = snprintf_tid(child.ktid)]_vars
    /\ [](child.pc \in {"running", "ended", "aborted"}
             => /\ child.t_cachedTid = child.ktid
                /\ child.t_tidString = snprintf_tid(child.ktid)
                /\ child.pidns = "parent" => child.t_cachedTid # child.inherited
                /\ child.t_threadName \in {"main", "finished", "crashed"})
    /\ [][child' # child => tls' = tls]_vars
    /\ [][\A t \in ProcThreads :
             (tls[t].live /\ tls'[t].live /\ tls[t].t_cachedTid # 0)
                 => tls'[t].t_cachedTid = tls[t].t_cachedTid]_vars

C15_Witness ==
    /\ child.pc = "ended"
    /\ child.pidns = "parent"
    /\ child.forker # 0
    /\ child.inherited = gettid(child.forker)
    /\ child.inheritedName = "Thread0"
    /\ child.t_threadName = "finished"
    /\ child.t_cachedTid = child.ktid
    /\ \E u \in ProcThreads : u # 0 /\ ~tls[u].live /\ child.ktid = gettid(u)

\* C16: under fair scheduling of the spawned thread, a start() whose spawn
\* succeeded returns, although the user function never returns.
C16_StartReturns ==
    \A h \in Handles :
        (cpc \in {"start_created", "start_wait"} /\ carg = h)
            ~> (startRet[h] /\ cpc = "idle")

C16_Witness ==
    \E h \in Handles :
        /\ startRet[h]
        /\ cpc = "idle"
        /\ wpc[h] = "func"
        /\ funcCalls[h] = 1

\* C17: the latch of a handle is counted down exactly once, by the spawned
\* thread, after it has written its id through tid_ and before it calls the
\* user function; the creator waits on it exactly once, inside start(); and
\* the count never goes below 0.
C17_LatchOnce ==
    \A h \in Handles :
        /\ latch_[h] >= 0
        /\ countDowns[h] <= 1
        /\ hstate[h] # "none" => latch_[h] = 1 - countDowns[h]
        /\ countDowns[h] = 1 => (tid_[h] = gettid(h) /\ spawned[h] = 1)
        /\ funcCalls[h] > 0 => countDowns[h] = 1
        /\ wpc[h] \in {"publish", "countdown"} => countDowns[h] = 0
        /\ latchWaits[h] <= spawned[h] /\ latchWaits[h] <= 1
        /\ (cpc = "start_wait" /\ carg = h) => latchWaits[h] = 1
        /\ startRet[h] => (countDowns[h] = 1 /\ latchWaits[h] = 1)

C17_Witness ==
    \E h \in Handles :
        /\ countDowns[h] = 1
        /\ latchWaits[h] = 1
        /\ latch_[h] = 0
        /\ startRet[h]
        /\ wpc[h] = "exited"

\* C18: the UnassignGuard of a condition wait by thread T clears holder_
\* before the wait releases the native mutex and sets it back to T when the
\* scope ends, after the wait has taken the mutex again; while other threads
\* take and release the mutex, holder_ never names a thread that does not
\* hold the native mutex, and holder_ is T once the scope has ended.
C18_UnassignGuardKeepsHolder ==
    /\ holder_ # 0 => mutex_ = holder_
    /\ \A t \in Threads :
          /\ mpc[t] = "w_unassigned" => (holder_ = 0 /\ mutex_ = gettid(t))
          /\ mpc[t] = "w_blocked" => (holder_ # gettid(t) /\ mutex_ # gettid(t))
          /\ mpc[t] = "w_reacquired" => (holder_ = 0 /\ mutex_ = gettid(t))
          /\ (mpc[t] = "cs" /\ waits[t] > 0)
                 => (holder_ = gettid(t) /\ mutex_ = gettid(t))

C18_Witness ==
    \E t, u \in Threads :
        /\ t # u
        /\ mpc[t] = "cs" /\ waits[t] = 1 /\ holder_ = gettid(t)
        /\ pairs[u] > 0

\* C19: the mutex is not reentrant. A thread that calls lock() on a MutexLock
\* it holds never returns from that call, holder_ stays its id, and no other
\* thread's lock() on the mutex returns from then on.
C19_RelockDeadlocks ==
    [][\A t \in Threads :
          mpc[t] = "relock_wait"
              => /\ mpc' = mpc
                 /\ holder_' = gettid(t)
                 /\ mutex_' = gettid(t)]_vars

C19_Witness ==
    \E t, u \in Threads :
        /\ t # u
        /\ mpc[t] = "relock_wait" /\ holder_ = gettid(t)
        /\ mpc[u] = "idle" /\ pairs[u] < MaxPairs

\* C20: once the spawned thread has counted the latch down, its pointer to
\* tid_ is null, its next step nulls the pointer to latch_ without using it,
\* and it works on the copies in its ThreadData record, so a handle destroyed after start() has returned, while the user
\* function still runs, is never written by the spawned thread; the record
\* is freed once, by startThread, after the user function has returned.
C20_NoAccessAfterCountDown ==
    /\ [](\A h \in Handles :
             /\ wpc[h] \notin {"none", "publish"} => data[h].tid_ = 0
             /\ wpc[h] \notin {"none", "publish", "countdown", "nulllatch"}
                    => data[h].latch_ = 0
             /\ (hstate[h] = "destroyed" /\ spawned[h] = 1)
                    => (countDowns[h] = 1 /\ wpc[h] \notin {"publish", "countdown"})
             /\ dataFrees[h] <= 1
             /\ data[h].life = "freed" <=> dataFrees[h] = 1
             /\ wpc[h] = "exited" <=> (dataFrees[h] = 1 /\ spawned[h] = 1)
             /\ wpc[h] = "exited" => t_threadName[h] = "finished")
    /\ [][\A h \in Handles :
             hstate[h] = "destroyed"
                 => (tid_'[h] = tid_[h] /\ latch_'[h] = latch_[h])]_vars

C20_Witness ==
    \E h \in Handles :
        /\ hstate[h] = "destroyed" /\ detached[h]
        /\ wpc[h] = "exited"
        /\ dataFrees[h] = 1
        /\ iter[h] = K

====
